---- MODULE Spec2Model ----
(***************************************************************************)
(* Model of the mini-shell command executor (src/src/cmd.c).               *)
(*                                                                         *)
(* A process is an entry of proc: its call stack of parse_command          *)
(* activations (frames), its descriptor table, its working directory and   *)
(* its environment.  fork() copies the entry; wait()/waitpid() reap        *)
(* zombies; a signal may end any child process at any point.               *)
(*                                                                         *)
(* The command tree is the input.  Every node of the tree is visited at    *)
(* most once, by exactly one process, so the fields of a node are drawn    *)
(* from their bounded sets at the point where the code first reads them:   *)
(* c->op when parse_command is entered, the simple command's fields when   *)
(* parse_simple / open_files read them.                                    *)
(***************************************************************************)
EXTENDS Integers, Sequences, FiniteSets, TLC

VARIABLES proc, result, family

vars == <<proc, result, family>>

(* ------------------------------ bounds ------------------------------- *)

\* operator nodes nested below the root of the command tree
MaxDepth == 2
\* processes the system lets exist at once (fork fails with EAGAIN beyond it)
MaxProcs == 3
\* size of a process's descriptor table
MaxFd == 7
\* largest exit code an external program returns
MaxExitCode == 1

(* ------------------------- program constants ------------------------- *)

READ == 0
WRITE == 1
STDIN_FILENO == 0
STDOUT_FILENO == 1
STDERR_FILENO == 2
EXIT_SUCCESS == 0
EXIT_FAILURE == 1
\* cmd.h: the status exit/quit hand back to the caller of parse_command
SHELL_EXIT == -100
\* the signal that ends a process abnormally
SIGKILL == 9

\* the slots of the process table
Pids == 0 .. (MaxProcs + 1)
Shell == 0
NoPid == -1
Fds == 0 .. (MaxFd - 1)
ExitCodes == 0 .. MaxExitCode

Ops == {"OP_SEQUENTIAL", "OP_PARALLEL", "OP_CONDITIONAL_NZERO",
        "OP_CONDITIONAL_ZERO", "OP_PIPE"}
Verbs == {"NULL", "true", "false", "cd", "exit", "quit", "assign", "ext"}

\* "" stands for a NULL redirection word; "denied" cannot be opened
Paths == {"f", "g", "denied"}
Redirs == Paths \cup {""}
\* the directories that exist
Dirs == {"/", "/a"}
\* io_flags: IO_REGULAR, IO_OUT_APPEND, IO_ERR_APPEND and both
IoFlags == 0 .. 3

(* -------------------------- wait status words ------------------------ *)

\* the status word wait() stores for a process that called exit(code)
ExitedWord(code) == (code % 256) * 256
\* the status word wait() stores for a process ended by signal sig
SignaledWord(sig) == sig % 128
WIFEXITED(status) == (status % 128) = 0
WEXITSTATUS(status) == (status \div 256) % 256

(* --------------------------- descriptor table ------------------------ *)

Closed == [kind |-> "closed", path |-> "", n |-> 0]
Tty(k) == [kind |-> "tty", path |-> "", n |-> k]
File(path, i) == [kind |-> "file", path |-> path, n |-> i]
PipeEnd(end, id) == [kind |-> IF end = READ THEN "pipe_r" ELSE "pipe_w",
                     path |-> "", n |-> id]

InitFds == [fd \in Fds |-> IF fd <= 2 THEN Tty(fd) ELSE Closed]
NoFds == [fd \in Fds |-> Closed]

\* the lowest free descriptor number, -1 when the table is full (EMFILE)
LowestFree(fds) ==
    IF \E fd \in Fds : fds[fd] = Closed
    THEN CHOOSE fd \in Fds : fds[fd] = Closed /\ \A g \in Fds : g < fd => fds[g] # Closed
    ELSE -1

IsOpen(fds, fd) == fd \in Fds /\ fds[fd] # Closed

\* dup(old): <<table, returned descriptor>>
Dup(fds, old) ==
    LET new == LowestFree(fds) IN
    IF IsOpen(fds, old) /\ new # -1
    THEN <<[fds EXCEPT ![new] = fds[old]], new>>
    ELSE <<fds, -1>>

\* dup2(old, new): EBADF leaves the table alone
Dup2(fds, old, new) ==
    IF IsOpen(fds, old) /\ new \in Fds THEN [fds EXCEPT ![new] = fds[old]] ELSE fds

Close(fds, fd) == IF fd \in Fds THEN [fds EXCEPT ![fd] = Closed] ELSE fds

\* open(path, flags): <<table, returned descriptor>>; i tags the open file
Open(fds, path, i) ==
    LET new == LowestFree(fds) IN
    IF path # "denied" /\ new # -1
    THEN <<[fds EXCEPT ![new] = File(path, i)], new>>
    ELSE <<fds, -1>>

(* ---------------------------- input families ------------------------- *)

\* What a run draws its input from: the operators and verbs of the command
\* tree, its depth, and the process limit of the system it runs on.  The
\* first family has every operator, every verb and the empty command
\* (cmd1, cmd2 and scmd all NULL); the second trades the variety of the tree
\* for one more process; the third has a single PIPE whose two sides are
\* built-ins or external programs, and room for every process it creates.
Families ==
    {[nproc |-> MaxProcs, depth |-> MaxDepth, ops |-> Ops,
      leaves |-> {"OP_NONE", "EMPTY"}, verbs |-> Verbs],
     [nproc |-> MaxProcs + 1, depth |-> MaxDepth,
      ops |-> {"OP_SEQUENTIAL", "OP_PARALLEL"},
      leaves |-> {"OP_NONE"}, verbs |-> {"true", "ext"}],
     [nproc |-> MaxProcs + 2, depth |-> MaxDepth - 1,
      ops |-> {"OP_PIPE"},
      leaves |-> {"OP_NONE"}, verbs |-> {"true", "ext"}]}

(* ------------------------------ open_files --------------------------- *)

BaseFlags(i) == IF i = 2 THEN {"O_CREAT", "O_RDONLY"} ELSE {"O_CREAT", "O_WRONLY"}

\* bug variant: no combined case, every redirection gets its own open
OpenFilesStepSeparately(s, st, i) ==
    IF st.died THEN st ELSE
    LET outs == <<STDOUT_FILENO, STDERR_FILENO, STDIN_FILENO>>
        d == Dup(st.fds, outs[i + 1])
        fds1 == d[1]
        saved == [st.save EXCEPT ![i + 1] = d[2]]
        file == st.redir[i + 1]
    IN  IF file = ""
        THEN [st EXCEPT !.fds = fds1, !.save = saved]
        ELSE
        LET flags == IF (s.io_flags # 0) \/ (i = 2)
                     THEN BaseFlags(i) \cup {"O_APPEND"}
                     ELSE BaseFlags(i) \cup {"O_TRUNC"}
            o == Open(fds1, file, i)
            fd == o[2]
            opens2 == Append(st.opens, [path |-> file, flags |-> flags, i |-> i])
        IN  IF fd < 0
            THEN [st EXCEPT !.fds = o[1], !.save = saved, !.opens = opens2, !.died = TRUE]
            ELSE [st EXCEPT !.fds = Close(Dup2(o[1], fd, outs[i + 1]), fd),
                            !.save = saved, !.opens = opens2]

\* one iteration of the loop of open_files; st carries fds, redir, the
\* saved descriptors, the opens performed and whether DIE ended the process
OpenFilesStep(s, st, i) ==
    IF st.died THEN st ELSE
    LET outs == <<STDOUT_FILENO, STDERR_FILENO, STDIN_FILENO>>
        d == Dup(st.fds, outs[i + 1])
        fds1 == d[1]
        saved == [st.save EXCEPT ![i + 1] = d[2]]
        file == st.redir[i + 1]
    IN  IF file = ""
        THEN [st EXCEPT !.fds = fds1, !.save = saved]
        ELSE
        LET both == (st.redir[2] # "") /\ (i = 0) /\ (st.redir[1] = st.redir[2])
            flags == IF both THEN BaseFlags(0) \cup {"O_APPEND", "O_TRUNC"}
                     ELSE IF (s.io_flags # 0) \/ (i = 2)
                          THEN BaseFlags(i) \cup {"O_APPEND"}
                          ELSE BaseFlags(i) \cup {"O_TRUNC"}
            o == Open(fds1, file, i)
            fd == o[2]
            fds2 == IF both THEN Dup2(o[1], fd, outs[2]) ELSE o[1]
            redir2 == IF both THEN [st.redir EXCEPT ![2] = ""] ELSE st.redir
            opens2 == Append(st.opens, [path |-> file, flags |-> flags, i |-> i])
        IN  IF fd < 0
            THEN [st EXCEPT !.fds = fds2, !.save = saved, !.redir = redir2,
                            !.opens = opens2, !.died = TRUE]
            ELSE [st EXCEPT !.fds = Close(Dup2(fds2, fd, outs[i + 1]), fd),
                            !.save = saved, !.redir = redir2, !.opens = opens2]

\* the three iterations, i = 0, 1, 2, each on the state the one before left
open_files(s, fds) ==
    LET st0 == [fds |-> fds, redir |-> <<s.out, s.err, s.in>>,
                save |-> <<-1, -1, -1>>, opens |-> <<>>, died |-> FALSE]
    IN  CHOOSE st3 \in {OpenFilesStep(s, st2, 2) :
                            st2 \in {OpenFilesStep(s, st1, 1) :
                                        st1 \in {OpenFilesStep(s, st0, 0)}}} : TRUE

(* ----------------------------- fix_redirects ------------------------- *)

FixStep(fds, outs_save, i) ==
    LET outs == <<STDOUT_FILENO, STDERR_FILENO, STDIN_FILENO>>
    IN  Close(Dup2(fds, outs_save[i + 1], outs[i + 1]), outs_save[i + 1])

fix_redirects(fds, outs_save) ==
    FixStep(FixStep(FixStep(fds, outs_save, 0), outs_save, 1), outs_save, 2)

(* -------------------------------- shell_cd --------------------------- *)

\* chdir(path): <<return code, working directory afterwards>>
Chdir(path, cwd) == IF path \in Dirs THEN <<0, path>> ELSE <<-1, cwd>>

\* bug variant: the working directory is assigned before the result is tested
shell_cd_moves_on_failure(dir, cwd) ==
    IF (dir = <<>>) \/ (Len(dir[1]) > 1)
    THEN [ok |-> FALSE, cwd |-> cwd, note |-> "rejected"]
    ELSE [ok |-> Chdir(dir[1][1], cwd)[1] >= 0, cwd |-> dir[1][1],
          note |-> IF Chdir(dir[1][1], cwd)[1] < 0 THEN "chdir" ELSE "ok"]

\* dir is s->params: a list of words, each word a list of parts.
\* dir == NULL is the empty list, dir->next_part != NULL a first word of
\* more than one part, dir->string the first part of the first word.
shell_cd(dir, cwd) ==
    IF (dir = <<>>) \/ (Len(dir[1]) > 1)
    THEN [ok |-> FALSE, cwd |-> cwd, note |-> "rejected"]
    ELSE LET r == Chdir(dir[1][1], cwd)
         IN  IF r[1] < 0 THEN [ok |-> FALSE, cwd |-> cwd, note |-> "chdir"]
             ELSE [ok |-> TRUE, cwd |-> r[2], note |-> "ok"]

shell_exit == SHELL_EXIT

(* ------------------------------ processes ---------------------------- *)

\* st: "free" (no process), "run" (executing the shell's code), "exec" (the
\* child forked by parse_simple, before execvp), "prog" (an external program
\* image), "reader" (an external program image that reads the pipe on its
\* standard input until end-of-file), "zombie" (terminated, not yet reaped).  rc remembers, for a zombie
\* that ran a subtree to its end, the status that subtree returned.
\* io: the redirections open_files last applied in this process, and the
\* open() calls it made for them.  sides: for every pipe the process was
\* forked under, the pipe and the side ("left" for cmd1, "right" for cmd2)
\* of its orchestrator's child it descends from; fork() hands it down.
NoIo == [out |-> "", err |-> "", in |-> "", io_flags |-> 0, opens |-> <<>>]

Applied(s, opens) ==
    [out |-> s.out, err |-> s.err, in |-> s.in, io_flags |-> s.io_flags, opens |-> opens]

FreeProc == [st |-> "free", ppid |-> NoPid, wstatus |-> 0, rc |-> <<>>,
             stack |-> <<>>, fds |-> NoFds, cwd |-> "/", env |-> "", io |-> NoIo,
             sides |-> {}]

Live(P, q) == P[q].st \in {"run", "exec", "prog", "reader"}

\* the pid fork() hands out, -1 when the process table is full
FreePid(P) ==
    IF Cardinality({q \in Pids : P[q].st # "free"}) < family.nproc
    THEN CHOOSE q \in Pids : P[q].st = "free" /\ \A r \in Pids : r < q => P[r].st # "free"
    ELSE -1

\* process p ends with status word w: it becomes a zombie of its parent
\* (an orphan is reaped at once by init); its own children are orphaned.
Terminate(P, p, w, rc) ==
    [q \in Pids |->
        IF q = p
        THEN IF P[p].ppid = NoPid /\ p # Shell THEN FreeProc
             ELSE [FreeProc EXCEPT !.st = "zombie", !.ppid = P[p].ppid,
                                   !.wstatus = w, !.rc = rc]
        ELSE IF P[q].ppid = p
             THEN IF P[q].st = "zombie" THEN FreeProc ELSE [P[q] EXCEPT !.ppid = NoPid]
             ELSE P[q]]

ZombieChildren(P, p) == {q \in Pids : P[q].ppid = p /\ P[q].st = "zombie"}

(* -------------------------------- frames ----------------------------- *)

\* One activation of parse_command (with the parse_simple, run_in_parallel
\* or run_on_pipe it calls).  d: operator levels the tree may still have
\* below this node.  rc1/rc2: the status of the cmd1/cmd2 subtree (in the
\* orchestrator of PARALLEL/PIPE: as the child reported it when reaped).
\* ws1/ws2: the status word of child1/child2 once this activation reaped it.
\* wpid: the pid the last wait() returned.  verb, argc, note: the verb of
\* the simple command, the number of its argument words, and what shell_cd
\* did with them.
InitialPc(op) ==
    CASE op = "OP_NONE" -> "simple"
      [] op = "EMPTY" -> "ret"
      [] op = "OP_PARALLEL" -> "fork1"
      [] op = "OP_PIPE" -> "pipe"
      [] OTHER -> "cmd1"

NewFrame(op, d) ==
    [op |-> op, pc |-> InitialPc(op), d |-> d, rc1 |-> <<>>, rc2 |-> <<>>,
     val |-> IF op = "EMPTY" THEN -1 ELSE 0, i |-> 2, status |-> 0, child1 |-> NoPid, child2 |-> NoPid,
     wpid |-> NoPid, ws1 |-> <<>>, ws2 |-> <<>>, fd |-> <<-1, -1>>,
     verb |-> "", note |-> "", argc |-> 0]

\* what a node with d operator levels left below it may be; "EMPTY" is the
\* command the sanity check of parse_command answers with -1
NodeOps(d) == family.leaves \cup (IF d > 0 THEN family.ops ELSE {})
ChildDepth(op, d) == IF op \in {"OP_NONE", "EMPTY"} THEN 0 ELSE d - 1

Running(p) == proc[p].st = "run" /\ proc[p].stack # <<>>
Top(p) == proc[p].stack[Len(proc[p].stack)]
SetTop(P, p, f) == [P EXCEPT ![p].stack[Len(P[p].stack)] = f]
Returned(f, v) == [f EXCEPT !.pc = "ret", !.val = v]

(* ------------------------------ scheduling --------------------------- *)

\* Processes share no memory: they act on each other only through system
\* calls on the process table and on pipes.  A step that stays inside the
\* process (a call, a return, a built-in) is therefore scheduled before any
\* system call, lowest pid first; system calls and signals interleave freely.
LocalPcs == {"cmd1", "cmd2", "simple", "ret"}

LocalPending(q) ==
    /\ proc[q].st = "run"
    /\ proc[q].stack # <<>>
    /\ proc[q].stack[Len(proc[q].stack)].pc \in LocalPcs

LocalTurn(p) == Running(p) /\ LocalPending(p) /\ \A q \in Pids : q < p => ~LocalPending(q)

AtSyscall(p, op, pc) ==
    /\ Running(p)
    /\ Top(p).op = op
    /\ Top(p).pc = pc
    /\ \A q \in Pids : ~LocalPending(q)

Quiet == \A q \in Pids : ~LocalPending(q)

(* ------------------------------ the input ---------------------------- *)

\* found: execvp finds the program; reads: the program reads its standard
\* input until end-of-file before it exits
NoCommand == [verb |-> "", params |-> <<>>, out |-> "", err |-> "", in |-> "",
              io_flags |-> 0, found |-> TRUE, reads |-> FALSE, value |-> ""]

\* the argument lists of cd: none, an existing directory, a missing one, a
\* first word of two parts, two words
CdParams == {<<>>, << <<"/a">> >>, << <<"/nonexistent">> >>, << <<"/", "a">> >>,
             << <<"/a">>, <<"/">> >>}

\* every simple command the dispatch of parse_simple tells apart
CdCommands ==
    {[NoCommand EXCEPT !.verb = "cd", !.params = a, !.out = o, !.err = e,
                       !.in = i, !.io_flags = fl] :
        a \in CdParams, o \in Redirs, e \in Redirs, i \in Redirs, fl \in IoFlags}

ExtCommands ==
    {[NoCommand EXCEPT !.verb = "ext", !.found = fnd, !.reads = rd, !.out = o,
                       !.err = e, !.in = i, !.io_flags = fl] :
        fnd \in BOOLEAN, rd \in BOOLEAN, o \in Redirs, e \in Redirs, i \in Redirs, fl \in IoFlags}

AssignCommands == {[NoCommand EXCEPT !.verb = "assign", !.value = "hello"]}

\* the commands drawn for a leaf under an operator: without redirections
Nested(S) == {s \in S : s.out = "" /\ s.err = "" /\ s.in = "" /\ s.io_flags = 0}
NestedCdCommands == Nested(CdCommands)
NestedExtCommands == Nested(ExtCommands)

\* the command is the whole tree handed to the shell
WholeTree(p) == p = Shell /\ Len(proc[p].stack) = 1

(* ------------------------------ parse_simple ------------------------- *)

\* utils.h DIE(cond, msg): report and exit(EXIT_FAILURE)
DIE(P, p) == Terminate(P, p, ExitedWord(EXIT_FAILURE), <<>>)

\* the status of the boolean literals
BoolStatus(verb) == IF verb = "true" THEN 0 ELSE -1

\* the cd built-in: open_files, shell_cd, fix_redirects; rc = !shell_cd(...)
RunCd(s, fds, cwd) ==
    LET o == open_files(s, fds)
        c == shell_cd(s.params, cwd)
    IN  IF o.died
        THEN [died |-> TRUE, rc |-> 0, fds |-> o.fds, cwd |-> cwd, note |-> "open",
              io |-> Applied(s, o.opens)]
        ELSE [died |-> FALSE,
              io |-> Applied(s, o.opens),
              rc |-> IF c.ok THEN 0 ELSE 1,
              fds |-> fix_redirects(o.fds, o.save),
              cwd |-> c.cwd,
              note |-> c.note]

\* setenv(name, value, 1): <<return code, value of the variable afterwards>>
Setenv(env, value) == <<0, value>>

\* bug variant: the branches of PARALLEL and PIPE run as threads of the
\* orchestrating process, so chdir and setenv of a branch act on the one
\* working directory and environment they share with it
InOneProcess(P, p) ==
    IF P[p].ppid = NoPid THEN P
    ELSE [P EXCEPT ![P[p].ppid].cwd = P[p].cwd, ![P[p].ppid].env = P[p].env]

ParseSimpleInThread(p) ==
    /\ LocalTurn(p)
    /\ Top(p).op = "OP_NONE"
    /\ Top(p).pc = "simple"
    /\ UNCHANGED <<result, family>>
    /\ \E verb \in family.verbs :
        LET f == [Top(p) EXCEPT !.verb = verb] IN
        \/ /\ verb = "NULL"
           /\ proc' = SetTop(proc, p, Returned(f, -1))
        \/ /\ verb \in {"true", "false"}
           /\ proc' = SetTop(proc, p, Returned(f, BoolStatus(verb)))
        \/ /\ verb = "cd"
           /\ \E s \in IF WholeTree(p) THEN CdCommands ELSE NestedCdCommands :
                LET r == RunCd(s, proc[p].fds, proc[p].cwd) IN
                IF r.died
                THEN proc' = SetTop(proc, p, [f EXCEPT !.pc = "die", !.note = r.note])
                ELSE proc' = InOneProcess(
                                [SetTop(proc, p, Returned([f EXCEPT !.note = r.note, !.argc = Len(s.params)], r.rc))
                                    EXCEPT ![p].fds = r.fds, ![p].cwd = r.cwd, ![p].io = r.io], p)
        \/ /\ verb \in {"exit", "quit"}
           /\ proc' = SetTop(proc, p, Returned(f, shell_exit))
        \/ /\ verb = "assign"
           /\ \E s \in AssignCommands :
                LET r == Setenv(proc[p].env, s.value) IN
                proc' = InOneProcess([SetTop(proc, p, Returned(f, r[1]))
                                        EXCEPT ![p].env = r[2]], p)
        \/ /\ verb = "ext"
           /\ proc' = SetTop(proc, p, [f EXCEPT !.pc = "fork"])

\* parse_simple up to its return or up to its first system call on the
\* process table: fork() for an external command, exit() in DIE
ParseSimple(p) ==
    /\ LocalTurn(p)
    /\ Top(p).op = "OP_NONE"
    /\ Top(p).pc = "simple"
    /\ UNCHANGED <<result, family>>
    /\ \E verb \in family.verbs :
        LET f == [Top(p) EXCEPT !.verb = verb] IN
        \/ /\ verb = "NULL"
           /\ proc' = SetTop(proc, p, Returned(f, -1))
        \/ /\ verb \in {"true", "false"}
           /\ proc' = SetTop(proc, p, Returned(f, BoolStatus(verb)))
        \/ /\ verb = "cd"
           /\ \E s \in IF WholeTree(p) THEN CdCommands ELSE NestedCdCommands :
                LET r == RunCd(s, proc[p].fds, proc[p].cwd) IN
                IF r.died
                THEN proc' = SetTop(proc, p, [f EXCEPT !.pc = "die", !.note = r.note])
                ELSE proc' = [SetTop(proc, p, Returned([f EXCEPT !.note = r.note, !.argc = Len(s.params)], r.rc))
                                EXCEPT ![p].fds = r.fds, ![p].cwd = r.cwd, ![p].io = r.io]
        \/ /\ verb \in {"exit", "quit"}
           /\ proc' = SetTop(proc, p, Returned(f, shell_exit))
        \/ /\ verb = "assign"
           /\ \E s \in AssignCommands :
                LET r == Setenv(proc[p].env, s.value) IN
                proc' = [SetTop(proc, p, Returned(f, r[1])) EXCEPT ![p].env = r[2]]
        \/ /\ verb = "ext"
           /\ proc' = SetTop(proc, p, [f EXCEPT !.pc = "fork"])

\* DIE after a failed open in the shell's own process
Die(p) ==
    /\ Running(p)
    /\ Top(p).pc = "die"
    /\ Quiet
    /\ UNCHANGED <<result, family>>
    /\ proc' = DIE(proc, p)

\* fork() of parse_simple
SimpleFork(p) ==
    /\ AtSyscall(p, "OP_NONE", "fork")
    /\ UNCHANGED <<result, family>>
    /\ LET child == FreePid(proc) IN
       IF child < 0 THEN proc' = DIE(proc, p)
       ELSE proc' = [SetTop(proc, p, [Top(p) EXCEPT !.pc = "wait", !.child1 = child])
                       EXCEPT ![child] = [proc[p] EXCEPT !.st = "exec", !.ppid = p,
                                                         !.stack = <<>>]]

\* the child of parse_simple: open_files, then execvp
ExecChild(p) ==
    /\ proc[p].st = "exec"
    /\ Quiet
    /\ UNCHANGED <<result, family>>
    /\ \E s \in IF proc[p].ppid = Shell /\ WholeTree(Shell)
                THEN ExtCommands ELSE NestedExtCommands :
        LET o == open_files(s, proc[p].fds) IN
        IF o.died THEN proc' = DIE(proc, p)
        ELSE IF s.found
        THEN proc' = [proc EXCEPT ![p].fds = o.fds, ![p].io = Applied(s, o.opens),
                                  ![p].st = IF s.reads /\ o.fds[STDIN_FILENO].kind = "pipe_r"
                                            THEN "reader" ELSE "prog"]
        ELSE proc' = Terminate(proc, p, ExitedWord(EXIT_FAILURE), <<>>)

\* read() on the standard input of p can return end-of-file: it is no pipe,
\* or no process holds the write end of that pipe
EofOnStdin(P, p) ==
    LET in == P[p].fds[STDIN_FILENO] IN
    in.kind = "pipe_r" =>
        \A q \in Pids, fd \in Fds : P[q].fds[fd] # PipeEnd(WRITE, in.n)

\* the external program runs to its end and exits with some code; one that
\* reads its input to the end gets there only at end-of-file
ProgExit(p) ==
    /\ proc[p].st \in {"prog", "reader"}
    /\ proc[p].st = "reader" => EofOnStdin(proc, p)
    /\ Quiet
    /\ UNCHANGED <<result, family>>
    /\ \E code \in ExitCodes : proc' = Terminate(proc, p, ExitedWord(code), <<>>)

\* wait(&status) of parse_simple: any terminated child of the caller
\* satisfies it; the status returned is WEXITSTATUS(status)
SimpleWait(p) ==
    /\ AtSyscall(p, "OP_NONE", "wait")
    /\ UNCHANGED <<result, family>>
    /\ \E q \in ZombieChildren(proc, p) :
        LET status == proc[q].wstatus IN
        proc' = [SetTop(proc, p, Returned([Top(p) EXCEPT !.wpid = q, !.status = status],
                                          WEXITSTATUS(status)))
                   EXCEPT ![q] = FreeProc]

\* a signal ends a child process
Kill(p) ==
    /\ p # Shell
    /\ Live(proc, p)
    /\ Quiet
    /\ UNCHANGED <<result, family>>
    /\ proc' = Terminate(proc, p, SignaledWord(SIGKILL), <<>>)

(* ------------------------------ parse_command ------------------------ *)

\* parse_command is entered for cmd1 or cmd2 of the current node: the
\* callee reads c->op and dispatches on it
ParseCommand(p) ==
    /\ LocalTurn(p)
    /\ Top(p).pc \in {"cmd1", "cmd2"}
    /\ UNCHANGED <<result, family>>
    /\ \E op \in NodeOps(Top(p).d) :
        LET caller == [Top(p) EXCEPT !.pc = IF Top(p).pc = "cmd1" THEN "in1" ELSE "in2"]
        IN  proc' = [proc EXCEPT ![p].stack =
                        Append(SubSeq(proc[p].stack, 1, Len(proc[p].stack) - 1) \o <<caller>>,
                               NewFrame(op, ChildDepth(op, Top(p).d)))]

\* the statement after the call on cmd1 returned v, by operator
AfterCmd1(f, v) ==
    LET g == [f EXCEPT !.rc1 = <<v>>] IN
    CASE f.op = "OP_SEQUENTIAL" -> [g EXCEPT !.pc = "cmd2"]
      [] f.op = "OP_CONDITIONAL_NZERO" ->
            IF v # 0 THEN [g EXCEPT !.pc = "cmd2"] ELSE Returned(g, -1)
      [] f.op = "OP_CONDITIONAL_ZERO" ->
            IF v = 0 THEN [g EXCEPT !.pc = "cmd2"] ELSE Returned(g, -1)
      [] OTHER -> [g EXCEPT !.pc = "exit"]

\* variant: the status of cmd2 is handed to the caller
AfterCmd2ReturnsIt(f, v) ==
    LET g == [f EXCEPT !.rc2 = <<v>>] IN
    IF f.op \in {"OP_PARALLEL", "OP_PIPE"} THEN [g EXCEPT !.pc = "exit"]
    ELSE Returned(g, v)

\* the statement after the call on cmd2 returned v: break, then return -1;
\* in a child of PARALLEL or PIPE the exit() calls follow
AfterCmd2(f, v) ==
    LET g == [f EXCEPT !.rc2 = <<v>>] IN
    IF f.op \in {"OP_PARALLEL", "OP_PIPE"} THEN [g EXCEPT !.pc = "exit"]
    ELSE Returned(g, -1)

\* a parse_command activation returns its value to its caller; the
\* outermost activation of the shell hands it to the driver
Return(p) ==
    /\ LocalTurn(p)
    /\ Top(p).pc = "ret"
    /\ UNCHANGED family
    /\ LET n == Len(proc[p].stack)
           v == Top(p).val
       IN  IF n = 1
           THEN /\ result' = <<v>>
                /\ proc' = [proc EXCEPT ![p].stack = <<>>]
           ELSE /\ UNCHANGED result
                /\ LET caller == proc[p].stack[n - 1]
                       next == IF caller.pc = "in1" THEN AfterCmd1(caller, v)
                               ELSE AfterCmd2(caller, v)
                   IN  proc' = [proc EXCEPT ![p].stack =
                                    Append(SubSeq(proc[p].stack, 1, n - 2), next)]

(* ----------------------------- run_in_parallel ----------------------- *)

\* the exit code of a child of PARALLEL or PIPE whose subtree returned rc
ChildExitCode(rc) == IF rc < 0 THEN EXIT_FAILURE ELSE EXIT_SUCCESS

\* fork() in an orchestrator: the child continues in the branch named pc
\* with a copy of the caller's state and never returns below this frame
ForkInto(P, p, child, pc) ==
    [P EXCEPT ![child] = [P[p] EXCEPT !.st = "run", !.ppid = p,
                                      !.stack = <<[P[p].stack[Len(P[p].stack)] EXCEPT !.pc = pc]>>]]

\* bug variant: the first child is awaited before the second is forked
ParFork1ThenWait(p) ==
    /\ AtSyscall(p, "OP_PARALLEL", "fork1")
    /\ UNCHANGED <<result, family>>
    /\ LET child == FreePid(proc) IN
       IF child < 0 THEN proc' = DIE(proc, p)
       ELSE proc' = SetTop(ForkInto(proc, p, child, "cmd1"), p,
                           [Top(p) EXCEPT !.pc = "wait", !.child1 = child])

ParFork1(p) ==
    /\ AtSyscall(p, "OP_PARALLEL", "fork1")
    /\ UNCHANGED <<result, family>>
    /\ LET child == FreePid(proc) IN
       IF child < 0 THEN proc' = DIE(proc, p)
       ELSE proc' = SetTop(ForkInto(proc, p, child, "cmd1"), p,
                           [Top(p) EXCEPT !.pc = "fork2", !.child1 = child])

ParFork2(p) ==
    /\ AtSyscall(p, "OP_PARALLEL", "fork2")
    /\ UNCHANGED <<result, family>>
    /\ LET child == FreePid(proc) IN
       IF child < 0 THEN proc' = DIE(proc, p)
       ELSE proc' = SetTop(ForkInto(proc, p, child, "cmd2"), p,
                           [Top(p) EXCEPT !.pc = "wait", !.child2 = child])

\* what reaping q adds to the orchestrator's record of its own two children
Reaped(P, f, q) ==
    IF q = f.child1 /\ f.ws1 = <<>>
    THEN [f EXCEPT !.ws1 = <<P[q].wstatus>>, !.rc1 = P[q].rc]
    ELSE IF q = f.child2 /\ f.ws2 = <<>>
    THEN [f EXCEPT !.ws2 = <<P[q].wstatus>>, !.rc2 = P[q].rc]
    ELSE f

\* one iteration of the wait loop: wait(&status) takes any terminated child
\* of the caller; parse_command returns !run_in_parallel(...)
ParWait(p) ==
    /\ AtSyscall(p, "OP_PARALLEL", "wait")
    /\ UNCHANGED <<result, family>>
    /\ \E q \in ZombieChildren(proc, p) :
        LET status == proc[q].wstatus
            f == [Reaped(proc, Top(p), q) EXCEPT !.status = status, !.wpid = q]
            next == IF ~WIFEXITED(status) THEN Returned(f, 1)
                    ELSE IF f.i - 1 = 0 THEN Returned([f EXCEPT !.i = 0], 0)
                    ELSE [f EXCEPT !.i = f.i - 1]
        IN  proc' = [SetTop(proc, p, next) EXCEPT ![q] = FreeProc]

\* the child of PARALLEL or PIPE after its subtree returned:
\* if (rc < 0) exit(EXIT_FAILURE); exit(EXIT_SUCCESS);
ChildExit(p) ==
    /\ Running(p)
    /\ Top(p).pc = "exit"
    /\ Quiet
    /\ UNCHANGED <<result, family>>
    /\ LET rc == IF Top(p).rc1 # <<>> THEN Top(p).rc1 ELSE Top(p).rc2
       IN  proc' = Terminate(proc, p, ExitedWord(ChildExitCode(rc[1])), rc)

(* ------------------------------- run_on_pipe ------------------------- *)

PipeIds == 0 .. (2 * MaxProcs + 1)

PipeInUse(P, id) ==
    \E q \in Pids, fd \in Fds : P[q].fds[fd].kind \in {"pipe_r", "pipe_w"} /\ P[q].fds[fd].n = id

\* pipe(fd): <<table, fd[READ], fd[WRITE]>>, descriptors -1 on failure
Pipe(P, fds) ==
    LET r == LowestFree(fds)
        fdsr == IF r < 0 THEN fds ELSE [fds EXCEPT ![r] = Tty(0)]
        w == LowestFree(fdsr)
        free == {id \in PipeIds : ~PipeInUse(P, id)}
    IN  IF r < 0 \/ w < 0 \/ free = {}
        THEN <<fds, -1, -1>>
        ELSE LET id == CHOOSE i \in free : \A j \in free : i <= j
             IN  <<[fds EXCEPT ![r] = PipeEnd(READ, id), ![w] = PipeEnd(WRITE, id)], r, w>>

\* the pipe whose ends pipe(fd) put in fd, as the orchestrator holds them
PipeOf(P, p, fd) == P[p].fds[fd[READ + 1]].n

\* the child just forked for a side of the pipe in fd
OnSide(P, p, child, fd, side) ==
    [P EXCEPT ![child].sides = P[p].sides \cup {<<PipeOf(P, p, fd), side>>}]

PipeCreate(p) ==
    /\ AtSyscall(p, "OP_PIPE", "pipe")
    /\ UNCHANGED <<result, family>>
    /\ LET r == Pipe(proc, proc[p].fds) IN
       IF r[2] < 0 THEN proc' = DIE(proc, p)
       ELSE proc' = [SetTop(proc, p, [Top(p) EXCEPT !.pc = "fork1", !.fd = <<r[2], r[3]>>])
                       EXCEPT ![p].fds = r[1]]

PipeFork1(p) ==
    /\ AtSyscall(p, "OP_PIPE", "fork1")
    /\ UNCHANGED <<result, family>>
    /\ LET child == FreePid(proc) IN
       IF child < 0 THEN proc' = DIE(proc, p)
       ELSE proc' = SetTop(OnSide(ForkInto(proc, p, child, "setup1"), p, child,
                                  Top(p).fd, "left"), p,
                           [Top(p) EXCEPT !.pc = "fork2", !.child1 = child])

\* bug variant: the orchestrator goes to wait with both pipe ends open
PipeFork2KeepsEnds(p) ==
    /\ AtSyscall(p, "OP_PIPE", "fork2")
    /\ UNCHANGED <<result, family>>
    /\ LET child == FreePid(proc) IN
       IF child < 0 THEN proc' = DIE(proc, p)
       ELSE proc' = SetTop(OnSide(ForkInto(proc, p, child, "setup2"), p, child,
                                  Top(p).fd, "right"), p,
                           [Top(p) EXCEPT !.pc = "wait1", !.child2 = child])

\* the second fork; the orchestrator then closes both ends and goes to wait
PipeFork2(p) ==
    /\ AtSyscall(p, "OP_PIPE", "fork2")
    /\ UNCHANGED <<result, family>>
    /\ LET child == FreePid(proc)
           fd == Top(p).fd
       IN  IF child < 0 THEN proc' = DIE(proc, p)
           ELSE proc' = [SetTop(OnSide(ForkInto(proc, p, child, "setup2"), p, child,
                                       fd, "right"), p,
                                [Top(p) EXCEPT !.pc = "wait1", !.child2 = child])
                           EXCEPT ![p].fds = Close(Close(proc[p].fds, fd[READ + 1]), fd[WRITE + 1])]

\* in a child of PIPE: dup2 the pipe end onto the stream, close both ends
\* a child that redirects its stream but keeps both descriptors of the pipe
PipeChildSetupKeepsEnds(p) ==
    /\ Running(p)
    /\ Top(p).op = "OP_PIPE"
    /\ Top(p).pc \in {"setup1", "setup2"}
    /\ Quiet
    /\ UNCHANGED <<result, family>>
    /\ LET fd == Top(p).fd
           first == Top(p).pc = "setup1"
           fds1 == IF first THEN Dup2(proc[p].fds, fd[WRITE + 1], STDOUT_FILENO)
                   ELSE Dup2(proc[p].fds, fd[READ + 1], STDIN_FILENO)
       IN  proc' = [SetTop(proc, p, [Top(p) EXCEPT !.pc = IF first THEN "cmd1" ELSE "cmd2"])
                      EXCEPT ![p].fds = fds1]

PipeChildSetup(p) ==
    /\ Running(p)
    /\ Top(p).op = "OP_PIPE"
    /\ Top(p).pc \in {"setup1", "setup2"}
    /\ Quiet
    /\ UNCHANGED <<result, family>>
    /\ LET fd == Top(p).fd
           first == Top(p).pc = "setup1"
           fds1 == IF first THEN Dup2(proc[p].fds, fd[WRITE + 1], STDOUT_FILENO)
                   ELSE Dup2(proc[p].fds, fd[READ + 1], STDIN_FILENO)
       IN  proc' = [SetTop(proc, p, [Top(p) EXCEPT !.pc = IF first THEN "cmd1" ELSE "cmd2"])
                      EXCEPT ![p].fds = Close(Close(fds1, fd[READ + 1]), fd[WRITE + 1])]

\* waitpid(child1, &status, WSTOPPED)
PipeWait1(p) ==
    /\ AtSyscall(p, "OP_PIPE", "wait1")
    /\ UNCHANGED <<result, family>>
    /\ LET q == Top(p).child1 IN
       /\ q \in ZombieChildren(proc, p)
       /\ proc' = [SetTop(proc, p, [Reaped(proc, Top(p), q) EXCEPT
                                       !.status = proc[q].wstatus, !.wpid = q, !.pc = "wait2"])
                     EXCEPT ![q] = FreeProc]

\* the status of run_on_pipe from the status word left in status
PipeStatus(status) == IF WEXITSTATUS(status) # 0 THEN 1 ELSE 0

\* waitpid(child2, &status, WSTOPPED), then the test of WEXITSTATUS(status);
\* parse_command returns !run_on_pipe(...)
PipeWait2(p) ==
    /\ AtSyscall(p, "OP_PIPE", "wait2")
    /\ UNCHANGED <<result, family>>
    /\ LET q == Top(p).child2 IN
       /\ q \in ZombieChildren(proc, p)
       /\ proc' = [SetTop(proc, p,
                          Returned([Reaped(proc, Top(p), q) EXCEPT
                                       !.status = proc[q].wstatus, !.wpid = q],
                                   PipeStatus(proc[q].wstatus)))
                     EXCEPT ![q] = FreeProc]

(* ---------------------------- the specification ---------------------- *)

Init ==
    /\ result = <<>>
    /\ family \in Families
    /\ \E op \in NodeOps(family.depth) :
        proc = [q \in Pids |->
                  IF q = Shell
                  THEN [FreeProc EXCEPT !.st = "run", !.fds = InitFds,
                                        !.stack = <<NewFrame(op, ChildDepth(op, family.depth))>>]
                  ELSE FreeProc]

Next ==
    \E p \in Pids :
        \/ ParseCommand(p)
        \/ ParseSimple(p)
        \/ Die(p)
        \/ SimpleFork(p)
        \/ ExecChild(p)
        \/ ProgExit(p)
        \/ SimpleWait(p)
        \/ Return(p)
        \/ ParFork1(p)
        \/ ParFork2(p)
        \/ ParWait(p)
        \/ ChildExit(p)
        \/ PipeCreate(p)
        \/ PipeFork1(p)
        \/ PipeFork2(p)
        \/ PipeChildSetup(p)
        \/ PipeWait1(p)
        \/ PipeWait2(p)
        \/ Kill(p)

Spec == Init /\ [][Next]_vars

\* a step of the code of process p, or of the program it runs: every
\* action but the signal
Step(p) ==
    \/ ParseCommand(p)
    \/ ParseSimple(p)
    \/ Die(p)
    \/ SimpleFork(p)
    \/ ExecChild(p)
    \/ ProgExit(p)
    \/ SimpleWait(p)
    \/ Return(p)
    \/ ParFork1(p)
    \/ ParFork2(p)
    \/ ParWait(p)
    \/ ChildExit(p)
    \/ PipeCreate(p)
    \/ PipeFork1(p)
    \/ PipeFork2(p)
    \/ PipeChildSetup(p)
    \/ PipeWait1(p)
    \/ PipeWait2(p)

\* the scheduler runs every process that can take a step, and every
\* external program that can reach its end does; signals need not arrive
Fairness == WF_vars(\E p \in Pids : Step(p))

FairSpec == Spec /\ Fairness

(* ------------------------------ properties --------------------------- *)

\* process p stands at the return of a parse_command activation on a node
\* whose operator is op
AtReturn(p, op) == Running(p) /\ Top(p).pc = "ret" /\ Top(p).op = op

\* this step is parse_simple running a built-in of process p to its return
SimpleReturns(p, verbs) ==
    /\ Running(p)
    /\ Top(p).op = "OP_NONE"
    /\ Top(p).pc = "simple"
    /\ proc'[p].st = "run"
    /\ Len(proc'[p].stack) = Len(proc[p].stack)
    /\ proc'[p].stack[Len(proc'[p].stack)].pc = "ret"
    /\ proc'[p].stack[Len(proc'[p].stack)].verb \in verbs

\* the frame of process p after this step
TopAfter(p) == proc'[p].stack[Len(proc'[p].stack)]

\* C1: whenever SEQUENTIAL(A, B) returns, both A and B were executed and
\* the status returned is the status B returned.
C1_SequentialReturnsStatusOfB ==
    \A p \in Pids :
        AtReturn(p, "OP_SEQUENTIAL") =>
            /\ Top(p).rc1 # <<>>
            /\ Top(p).rc2 # <<>>
            /\ Top(p).val = Top(p).rc2[1]

\* C2: whenever COND_NONZERO(A, B) returns: if A returned 0 then B was not
\* executed and the status returned is 0; if A returned nonzero then B was
\* executed and the status returned is the status B returned.
C2_CondNonzeroStatus ==
    \A p \in Pids :
        AtReturn(p, "OP_CONDITIONAL_NZERO") =>
            /\ Top(p).rc1 # <<>>
            /\ IF Top(p).rc1[1] = 0
               THEN Top(p).rc2 = <<>> /\ Top(p).val = 0
               ELSE Top(p).rc2 # <<>> /\ Top(p).val = Top(p).rc2[1]

\* C3: whenever COND_ZERO(A, B) returns: if A returned nonzero then B was
\* not executed and the status returned is A's status; if A returned 0 then
\* B was executed and the status returned is the status B returned.
C3_CondZeroStatus ==
    \A p \in Pids :
        AtReturn(p, "OP_CONDITIONAL_ZERO") =>
            /\ Top(p).rc1 # <<>>
            /\ IF Top(p).rc1[1] # 0
               THEN Top(p).rc2 = <<>> /\ Top(p).val = Top(p).rc1[1]
               ELSE Top(p).rc2 # <<>> /\ Top(p).val = Top(p).rc2[1]

\* C4: whenever PIPE(A, B) returns and B's subtree returned a status in the
\* downstream child, the status returned for the pipe is that status.
C4_PipeReturnsStatusOfB ==
    \A p \in Pids :
        AtReturn(p, "OP_PIPE") /\ Top(p).rc2 # <<>> =>
            Top(p).val = Top(p).rc2[1]

\* both children this activation forked were reaped by it and had exited
BothTerminatedNormally(f) ==
    /\ f.ws1 # <<>>
    /\ f.ws2 # <<>>
    /\ WIFEXITED(f.ws1[1])
    /\ WIFEXITED(f.ws2[1])

\* C5: whenever PARALLEL(A, B) returns, the status is 0 if and only if the
\* two children created for A and B both terminated normally.
C5_ParallelSuccessIffBothNormal ==
    \A p \in Pids :
        AtReturn(p, "OP_PARALLEL") =>
            ((Top(p).val = 0) <=> BothTerminatedNormally(Top(p)))

\* the subtree of a child this activation reaped returned a negative status
ChildReportedNegative(f) ==
    \/ f.rc1 # <<>> /\ f.rc1[1] < 0
    \/ f.rc2 # <<>> /\ f.rc2[1] < 0

\* C6: whenever PARALLEL(A, B) or PIPE(A, B) returns and the subtree of
\* one of its children returned a negative status, the status returned for
\* the construct is nonzero.
C6_NegativeChildStatusIsFailure ==
    \A p \in Pids :
        (AtReturn(p, "OP_PARALLEL") \/ AtReturn(p, "OP_PIPE")) /\ ChildReportedNegative(Top(p)) =>
            Top(p).val # 0

\* C7: whenever an external command returns, the child its wait() reaped is
\* the child it forked for the command, and the status returned is the exit
\* status of that child.
C7_ExternalWaitsForItsOwnChild ==
    \A p \in Pids :
        AtReturn(p, "OP_NONE") /\ Top(p).verb = "ext" =>
            /\ Top(p).wpid = Top(p).child1
            /\ Top(p).val = WEXITSTATUS(Top(p).status)

\* C8: a cd command that returns leaves the descriptor table of its process
\* as it was before the command: each of the three standard streams is
\* bound to the open file it was bound to, and no saved copy stays open.
C8_CdRestoresStreams ==
    [][\A p \in Pids : SimpleReturns(p, {"cd"}) => proc'[p].fds = proc[p].fds]_vars

\* C9: a leaf true returns 0 and a leaf false returns 1, and the step
\* changes no other process: none is created.
C9_BooleanLiterals ==
    [][\A p \in Pids :
          SimpleReturns(p, {"true", "false"}) =>
              /\ TopAfter(p).verb = "true" => TopAfter(p).val = 0
              /\ TopAfter(p).verb = "false" => TopAfter(p).val = 1
              /\ \A q \in Pids \ {p} : proc'[q] = proc[q]]_vars

\* C10: when the chdir of a cd command fails, the command returns a nonzero
\* status, the working directory of the process is unchanged, and the
\* process is still running, at the return to its caller.
C10_FailedCdIsReported ==
    [][\A p \in Pids :
          SimpleReturns(p, {"cd"}) /\ TopAfter(p).note = "chdir" =>
              /\ TopAfter(p).val # 0
              /\ proc'[p].cwd = proc[p].cwd
              /\ proc'[p].st = "run"
              /\ TopAfter(p).pc = "ret"
              /\ \A q \in Pids \ {p} : proc'[q] = proc[q]]_vars

\* a cd whose chdir failed has returned 1 to a caller inside the tree, in a
\* process whose working directory a previous cd had moved
C10_FailedCdReturned ==
    \E p \in Pids :
        /\ AtReturn(p, "OP_NONE")
        /\ Top(p).verb = "cd"
        /\ Top(p).note = "chdir"
        /\ Top(p).val = 1
        /\ Len(proc[p].stack) > 1
        /\ proc[p].cwd = "/a"

\* the statements of run_in_parallel and run_on_pipe the orchestrating
\* process executes itself, and the return of parse_command after them
OrchestratorPcs == {"fork1", "fork2", "wait", "pipe", "wait1", "wait2", "ret"}

\* process p is the orchestrating process of a PARALLEL or PIPE it is in
InConstruct(p) ==
    /\ Running(p)
    /\ Top(p).op \in {"OP_PARALLEL", "OP_PIPE"}
    /\ Top(p).pc \in OrchestratorPcs

\* C11: no step taken while a process orchestrates a PARALLEL or PIPE, up
\* to and including its return, changes that process's working directory or
\* environment; and a cd or an assignment changes no process but the one
\* that runs it, so neither the orchestrator nor the sibling branch.
C11_ChildrenDoNotChangeOrchestrator ==
    [][\A p \in Pids :
          /\ InConstruct(p) /\ proc'[p].st = "run" =>
                proc'[p].cwd = proc[p].cwd /\ proc'[p].env = proc[p].env
          /\ SimpleReturns(p, {"cd", "assign"}) =>
                \A q \in Pids \ {p} : proc'[q] = proc[q]]_vars

\* a branch has changed its working directory and its environment below a
\* running orchestrator, which still has its own, and the sibling branch is
\* alive with the orchestrator's
C11_BranchMovedAlone ==
    \E p \in Pids, q \in Pids, r \in Pids :
        /\ InConstruct(p)
        /\ q # r
        /\ proc[q].ppid = p /\ Live(proc, q)
        /\ proc[r].ppid = p /\ Live(proc, r)
        /\ proc[q].cwd = "/a" /\ proc[q].env = "hello"
        /\ proc[p].cwd = "/" /\ proc[p].env = ""
        /\ proc[r].cwd = "/" /\ proc[r].env = ""

\* the top-level process was ended by DIE: fork, pipe or open failed in it
ShellAborted == proc[Shell].st = "zombie"

\* C12 (as stated): for every tree, if every external program terminates,
\* the top-level parse_command eventually returns an integer.
C12_RunReturns == <>(result # <<>>)

\* C12 (amended): for every tree, if every external program terminates,
\* the top-level parse_command eventually returns an integer, unless a
\* failure of fork, pipe or open ends the top-level process; no process is
\* left waiting forever, a program reading a pipe to end-of-file included.
C12_RunReturnsUnlessAborted == <>(result # <<>> \/ ShellAborted)

\* below the waiting orchestrator of a PIPE, the downstream program is
\* reading to end-of-file while the upstream program still holds the write
\* end
C12_ReaderWaitsForEof ==
    \E p \in Pids, r \in Pids, w \in Pids :
        /\ Running(p) /\ Top(p).op = "OP_PIPE" /\ Top(p).pc = "wait1"
        /\ proc[Top(p).child1].st = "run" /\ proc[w].ppid = Top(p).child1
        /\ proc[Top(p).child2].st = "run" /\ proc[r].ppid = Top(p).child2
        /\ proc[w].st = "prog"
        /\ proc[r].st = "reader"
        /\ ~EofOnStdin(proc, r)

\* C13: whenever PARALLEL returns, the orchestrating process has reaped
\* both children it created for the construct, so both have terminated.
C13_ParallelReapsBothChildren ==
    \A p \in Pids :
        AtReturn(p, "OP_PARALLEL") =>
            Top(p).ws1 # <<>> /\ Top(p).ws2 # <<>>

\* the statements of the orchestrator from its first wait on
WaitPcs == {"wait", "wait1", "wait2", "ret"}

\* this step is taken by the code of process p, which goes on running
OwnStep(p) == proc'[p].st = "run" /\ proc'[p].stack # proc[p].stack

\* the slots in which this step creates a process
Created == {q \in Pids : proc[q].st = "free" /\ proc'[q].st # "free"}

\* C14: an orchestrator of PARALLEL or PIPE that has reached a wait has
\* forked both children, two different processes; its first fork creates
\* child1 and leads to the second fork, its second fork creates child2 and
\* leads to the first wait, and from there on it creates no process: two
\* per invocation, the second before any wait.
C14_BothChildrenForkedBeforeWait ==
    [][\A p \in Pids :
          InConstruct(p) =>
              /\ Top(p).pc \in WaitPcs =>
                    /\ Top(p).child1 # NoPid
                    /\ Top(p).child2 # NoPid
                    /\ Top(p).child1 # Top(p).child2
              /\ OwnStep(p) /\ Top(p).pc = "fork1" =>
                    /\ TopAfter(p).pc = "fork2"
                    /\ Created = {TopAfter(p).child1}
                    /\ proc'[TopAfter(p).child1].ppid = p
              /\ OwnStep(p) /\ Top(p).pc = "fork2" =>
                    /\ TopAfter(p).pc \in {"wait", "wait1"}
                    /\ TopAfter(p).child1 = Top(p).child1
                    /\ Created = {TopAfter(p).child2}
                    /\ proc'[TopAfter(p).child2].ppid = p
              /\ OwnStep(p) /\ Top(p).pc \in WaitPcs \cup {"pipe"} =>
                    Created = {}
              /\ OwnStep(p) /\ Top(p).pc \in WaitPcs \ {"ret"} =>
                    TopAfter(p).pc \in WaitPcs]_vars

\* the orchestrator of a PARALLEL stands before its first wait with both
\* children running
C14_BothStartedNoneAwaited ==
    \E p \in Pids :
        /\ Running(p) /\ Top(p).op = "OP_PARALLEL" /\ Top(p).pc = "wait"
        /\ Top(p).i = 2
        /\ proc[Top(p).child1].st = "run" /\ proc[Top(p).child1].ppid = p
        /\ proc[Top(p).child2].st = "run" /\ proc[Top(p).child2].ppid = p

\* the open() calls made for stdout and stderr in the redirections io
StreamOpens(io) == {k \in 1 .. Len(io.opens) : io.opens[k].i \in {0, 1}}

\* C15: where a process applied redirections with stdout and stderr on the
\* identical path, it opened that path once, in the stdout iteration, with
\* O_APPEND and O_TRUNC together, made no open for stderr, and in the
\* program then running both stream slots are bound to that one open file.
C15_IdenticalPathOpenedOnce ==
    \A p \in Pids :
        LET io == proc[p].io IN
        io.out # "" /\ io.out = io.err =>
            /\ \E k \in StreamOpens(io) :
                  /\ StreamOpens(io) = {k}
                  /\ io.opens[k].i = 0
                  /\ io.opens[k].path = io.out
                  /\ io.opens[k].flags = {"O_CREAT", "O_WRONLY", "O_APPEND", "O_TRUNC"}
            /\ proc[p].st \in {"prog", "reader"} =>
                  /\ proc[p].fds[STDOUT_FILENO] = File(io.out, 0)
                  /\ proc[p].fds[STDERR_FILENO] = File(io.out, 0)

\* an external program runs with stdout and stderr on the one open file f,
\* after a single open
C15_ProgramOnOneFile ==
    \E p \in Pids :
        /\ proc[p].st = "prog"
        /\ proc[p].io.out = "f" /\ proc[p].io.err = "f" /\ proc[p].io.in = ""
        /\ Len(proc[p].io.opens) = 1
        /\ proc[p].fds[STDOUT_FILENO] = File("f", 0)
        /\ proc[p].fds[STDERR_FILENO] = File("f", 0)

\* the tree marked the redirection of stream i (0: stdout, 1: stderr) as
\* append-style: IO_OUT_APPEND is bit 0 of io_flags, IO_ERR_APPEND bit 1
MarkedAppend(io_flags, i) ==
    IF i = 0 THEN io_flags \in {1, 3} ELSE io_flags \in {2, 3}

\* C16: where a process applied redirections with stdout and stderr on
\* distinct paths, each of the two opens has O_APPEND exactly when the
\* redirection of its own stream is marked append-style, and O_TRUNC
\* exactly when it is not.
C16_AppendPerStream ==
    \A p \in Pids :
        LET io == proc[p].io IN
        io.out # "" /\ io.err # "" /\ io.out # io.err =>
            \A k \in StreamOpens(io) :
                /\ ("O_APPEND" \in io.opens[k].flags) <=> MarkedAppend(io.io_flags, io.opens[k].i)
                /\ ("O_TRUNC" \in io.opens[k].flags) <=> ~MarkedAppend(io.io_flags, io.opens[k].i)

\* C17: a cd given no argument or more than one returns a nonzero status,
\* leaves the working directory alone and attempts no chdir; a chdir is
\* attempted only for a cd with exactly one argument.
C17_CdRejectsWrongArgumentCount ==
    [][\A p \in Pids :
          SimpleReturns(p, {"cd"}) =>
              /\ TopAfter(p).argc # 1 =>
                    /\ TopAfter(p).val # 0
                    /\ proc'[p].cwd = proc[p].cwd
                    /\ TopAfter(p).note = "rejected"
              /\ TopAfter(p).note \in {"chdir", "ok"} => TopAfter(p).argc = 1]_vars

C19_PipeFailsWithDownstream ==
    \A p \in Pids :
        /\ AtReturn(p, "OP_PIPE")
        /\ Top(p).ws2 # <<>>
        /\ ~(WIFEXITED(Top(p).ws2[1]) /\ WEXITSTATUS(Top(p).ws2[1]) = 0)
        => Top(p).val # 0

\* process q holds the given end of pipe n on some descriptor
Holds(q, end, n) == \E fd \in Fds : proc[q].fds[fd] = PipeEnd(end, n)

\* some process is still between pipe(fd) and its own closing of fd for pipe
\* n, at one of the given positions: the orchestrator before it waits
\* ("fork1", "fork2"), the left child ("setup1") or the right child ("setup2")
\* before it runs its subtree
Setting(n, pcs) ==
    \E q \in Pids :
        /\ Running(q)
        /\ Top(q).op = "OP_PIPE"
        /\ Top(q).pc \in pcs
        /\ proc[q].fds[Top(q).fd[READ + 1]] = PipeEnd(READ, n)

\* the ends of pipe n are held by the two sides only: the write end by
\* processes of the left child's subtree, the read end by processes of the
\* right child's subtree (so the orchestrator, which is on neither side, holds
\* none, and with the left subtree gone nobody holds the write end)
HeldBySides(n) ==
    \A q \in Pids :
        /\ Holds(q, WRITE, n) =>
               <<n, "left">> \in proc[q].sides /\ <<n, "right">> \notin proc[q].sides
        /\ Holds(q, READ, n) =>
               <<n, "right">> \in proc[q].sides /\ <<n, "left">> \notin proc[q].sides

\* C20 as stated: in PIPE(A, B), once the orchestrator waits and the right
\* child runs its subtree, the write end is held only by the left child and
\* its descendants and the read end only by the right child and its
\* descendants.
C20_EndsHeldBySidesOnceRightRuns ==
    \A n \in PipeIds : ~Setting(n, {"fork1", "fork2", "setup2"}) => HeldBySides(n)

\* C20 amended: in PIPE(A, B), once the orchestrator waits and both children
\* run their subtrees, the write end is held only by the left child and its
\* descendants and the read end only by the right child and its descendants;
\* the orchestrator holds neither end.
C20_EndsHeldBySidesOnceBothRun ==
    \A n \in PipeIds :
        ~Setting(n, {"fork1", "fork2", "setup1", "setup2"}) => HeldBySides(n)

\* the orchestrator waits while both children, past their setup, hold their
\* ends of the pipe as standard output and standard input
C20_BothSidesRunning ==
    \E p \in Pids, n \in PipeIds :
        /\ Running(p)
        /\ Top(p).op = "OP_PIPE"
        /\ Top(p).pc = "wait1"
        /\ ~Setting(n, {"fork1", "fork2", "setup1", "setup2"})
        /\ ~Holds(p, READ, n) /\ ~Holds(p, WRITE, n)
        /\ Live(proc, Top(p).child1) /\ Live(proc, Top(p).child2)
        /\ proc[Top(p).child1].fds[STDOUT_FILENO] = PipeEnd(WRITE, n)
        /\ proc[Top(p).child2].fds[STDIN_FILENO] = PipeEnd(READ, n)

====
